---- MODULE Spec2Model ----
(***************************************************************************)
(* TurtLSystems: the L-system expander (lsystem, make_rules), the palette  *)
(* builder (make_colors, conform_color, clamp) and the command interpreter *)
(* run() of src/src/TurtLSystems/turtlsystems.py.                          *)
(*                                                                         *)
(* Strings are sequences of one-character strings.  A color is a triplet   *)
(* of integers; Python's None (and every falsy color) is the empty tuple.  *)
(* Lengths and coordinates are exact rationals <<numerator, denominator>>; *)
(* headings and angles are integers in units of full_circle.               *)
(***************************************************************************)
EXTENDS Integers, Sequences, FiniteSets, TLC

VARIABLES
    pc,                 \* position in run(): "setup", "loop", "end", "done", "fault"; "pure", "returned" around a helper call
    arg,                \* the keyword arguments of run(), fixed for the run
    bound,              \* the command string has at most this many characters
    i,                  \* number of characters of the string the for loop has taken
    c,                  \* the character consumed last (before case swapping)
    angle, length, thickness,
    pen_color, fill_color,
    swap_signs, swap_cases, modify_fill,
    stack,              \* List[State]
    gif_data,           \* stored frames
    draws, frames_attempted,
    qualifying,         \* observer: qualifying draws processed so far (uppercase-acting letters, '}', '@')
    t,                  \* the turtle (Drawing collaborator): pose, pen and colors
    canvas,             \* what the turtle has drawn so far
    emitted,            \* the turtle / recorder calls made by the last step, in order
    pure,               \* the last call of a pure helper: [fn, args, ret]
    ticks,              \* observer: the grave accents taken in a row just now, and swap_cases before them
    DRAW_NUMBER,        \* the global _DRAW_NUMBER: the calls of draw() so far
    amps,               \* observer: the '&' taken in a row just now, and swap_signs before them
    globals,            \* the globals _SILENT, _GHOSTSCRIPT, _INITIALIZED, _WAITED
    screen,             \* the turtle window: its configuration, the event loops entered
    called              \* the last call of init(), draw() or wait(): what it did and returned

vars == <<pc, arg, bound, i, c, angle, length, thickness, pen_color, fill_color,
          swap_signs, swap_cases, modify_fill, stack, gif_data, draws,
          frames_attempted, qualifying, t, canvas, emitted, pure, ticks, DRAW_NUMBER,
          amps, globals, screen, called>>

session == <<globals, screen, called>>

----------------------------------------------------------------------------
(* Bounds of the model *)

MaxLen == 3             \* longest command string
MaxFrameLen == 6        \* longest command string of the frame-capture runs
MaxColorLen == 5        \* longest command string of the color runs
MaxK == 2               \* largest draws_per_frame
MaxM == 2               \* largest max_frames
MaxLevel == 2           \* largest expansion level
MaxStart == 2           \* longest start string
MaxRulesLen == 7        \* longest rules string
MaxColors == 11         \* longest colors list
MaxThickLen == 5        \* longest command string of the thickness runs
MaxRunLen == 3          \* longest command string of each of several runs
MaxRuns == 2            \* largest number of calls of draw()
MaxPictureLen == 5      \* longest command string of the picture runs
MaxPoseLen == 4         \* longest command string of the turning and teleporting runs
MaxCalls == 3           \* most calls of init(), draw() and wait() in a session
MaxSessionLevel == 1    \* highest level of a draw() of a session

----------------------------------------------------------------------------
(* Arithmetic helpers *)

Abs(x) == IF x < 0 THEN -x ELSE x

Max(a, b) == IF a >= b THEN a ELSE b

Min(a, b) == IF a <= b THEN a ELSE b

RECURSIVE GCD(_, _)
GCD(a, b) == IF b = 0 THEN a ELSE GCD(b, a % b)

\* the rational n/d in lowest terms with a positive denominator
Rat(n, d) ==
    LET g == GCD(Abs(n), Abs(d))
        s == IF d < 0 THEN -1 ELSE 1
    IN  <<(s * n) \div g, (s * d) \div g>>

RInt(n) == <<n, 1>>

RAdd(p, q) == Rat(p[1] * q[2] + q[1] * p[2], p[2] * q[2])

RSub(p, q) == Rat(p[1] * q[2] - q[1] * p[2], p[2] * q[2])

RMul(p, q) == Rat(p[1] * q[1], p[2] * q[2])

RDiv(p, q) == Rat(p[1] * q[2], p[2] * q[1])

----------------------------------------------------------------------------
(* Colors and the palette *)

NoColor == <<>>

DEFAULT_COLORS ==
    << <<255, 255, 255>>, <<128, 128, 128>>, <<255, 0, 0>>, <<255, 128, 0>>,
       <<255, 255, 0>>, <<0, 255, 0>>, <<0, 255, 255>>, <<0, 0, 255>>,
       <<128, 0, 255>>, <<255, 0, 255>> >>

clampNoUpper(value) == Max(0, value)

clamp(value) == Max(0, Min(value, 255))

conform_color(color) ==
    IF color # NoColor
    THEN <<clamp(color[1]), clamp(color[2]), clamp(color[3])>>
    ELSE NoColor

\* colors is [given |-> FALSE] for None, or [given |-> TRUE, list |-> <<...>>]
make_colorsOverride(color, fillColor, colors) ==
    IF ~colors.given
    THEN <<conform_color(color), conform_color(fillColor)>> \o SubSeq(DEFAULT_COLORS, 3, 10)
    ELSE LET n == Min(Len(colors.list), Len(DEFAULT_COLORS))
             conformed == [k \in 1..n |-> conform_color(colors.list[k])]
             padded == conformed \o SubSeq(DEFAULT_COLORS, n + 1, Len(DEFAULT_COLORS))
         IN  [k \in 1..Len(padded) |->
                 IF k = 1 /\ color # NoColor THEN conform_color(color) ELSE padded[k]]

make_colors(color, fillColor, colors) ==
    IF ~colors.given
    THEN <<conform_color(color), conform_color(fillColor)>> \o SubSeq(DEFAULT_COLORS, 3, 10)
    ELSE LET n == Min(Len(colors.list), Len(DEFAULT_COLORS))
             conformed == [k \in 1..n |-> conform_color(colors.list[k])]
         IN  conformed \o SubSeq(DEFAULT_COLORS, n + 1, Len(DEFAULT_COLORS))

----------------------------------------------------------------------------
(* Grammar and expander *)

Whitespace == {" ", "\t", "\n"}

\* str.split(): the maximal runs of non-whitespace characters, in order
RECURSIVE SplitFrom(_, _, _)
SplitFrom(text, k, word) ==
    IF k > Len(text)
    THEN IF word = <<>> THEN <<>> ELSE <<word>>
    ELSE IF text[k] \in Whitespace
         THEN (IF word = <<>> THEN <<>> ELSE <<word>>) \o SplitFrom(text, k + 1, <<>>)
         ELSE SplitFrom(text, k + 1, Append(word, text[k]))

split(text) == SplitFrom(text, 1, <<>>)

\* dict(zip(split[::2], split[1::2])): one entry per key, the last pair of a key wins
DictOfPairs(tokens) ==
    LET n == Len(tokens) \div 2
        keys == {tokens[2 * k - 1] : k \in 1..n}
        last(key) == CHOOSE k \in 1..n :
                        /\ tokens[2 * k - 1] = key
                        /\ \A m \in 1..n : tokens[2 * m - 1] = key => m <= k
    IN  [key \in keys |-> tokens[2 * last(key)]]

DictOfPairsFirst(tokens) ==
    LET n == (Len(tokens) + 1) \div 2
        keys == {tokens[2 * k - 1] : k \in 1..n}
        last(key) == CHOOSE k \in 1..n :
                        /\ tokens[2 * k - 1] = key
                        /\ \A m \in 1..n : tokens[2 * m - 1] = key => m <= k
    IN  [key \in keys |-> IF 2 * last(key) <= Len(tokens) THEN tokens[2 * last(key)] ELSE <<>>]

\* rules is [str |-> TRUE, text |-> <<chars>>] or [str |-> FALSE, dict |-> mapping]
make_rulesKeepOdd(rules) ==
    IF rules.str THEN DictOfPairsFirst(split(rules.text)) ELSE rules.dict

make_rules(rules) ==
    IF rules.str THEN DictOfPairs(split(rules.text)) ELSE rules.dict

\* rules.get(ch, ch)
Get(rules, ch) == IF <<ch>> \in DOMAIN rules THEN rules[<<ch>>] ELSE <<ch>>

\* ''.join(rules.get(ch, ch) for ch in start)
RECURSIVE JoinFrom(_, _, _)
JoinFrom(start, rules, k) ==
    IF k > Len(start) THEN <<>>
    ELSE Get(rules, start[k]) \o JoinFrom(start, rules, k + 1)

\* a pass that rewrites the text of a replacement once more
RECURSIVE JoinFromAgain(_, _, _)
JoinFromAgain(start, rules, k) ==
    IF k > Len(start) THEN <<>>
    ELSE JoinFrom(Get(rules, start[k]), rules, 1) \o JoinFromAgain(start, rules, k + 1)

RECURSIVE lsystemInterleaved(_, _, _)
lsystemInterleaved(start, rules, level) ==
    IF level <= 0 THEN start
    ELSE lsystemInterleaved(JoinFromAgain(start, rules, 1), rules, level - 1)

RECURSIVE lsystem(_, _, _)
lsystem(start, rules, level) ==
    IF level <= 0 THEN start
    ELSE lsystem(JoinFrom(start, rules, 1), rules, level - 1)

----------------------------------------------------------------------------
(* The alphabet of command strings *)

Upper == {"F"}

Lower == {"f"}

Letters == Upper \cup Lower

Digits == {"0", "1", "2", "3", "4", "5", "6", "7", "8", "9"}

DigitValue(ch) ==
    CASE ch = "0" -> 0 [] ch = "1" -> 1 [] ch = "2" -> 2 [] ch = "3" -> 3
      [] ch = "4" -> 4 [] ch = "5" -> 5 [] ch = "6" -> 6 [] ch = "7" -> 7
      [] ch = "8" -> 8 [] ch = "9" -> 9

LengthSymbols == {"_", "^", "%", "*", "/"}

TurnSymbols == {"+", "-", "|"}

AngleSymbols == {"~", ")", "("}

ThicknessSymbols == {"=", ">", "<"}

ChannelSymbols == {".", ",", ":", ";", "!", "?"}

\* the grave accent, which a string of this language cannot hold
Backtick == "grave"

OtherSymbols == {"&", "#", "{", "}", "@", Backtick, "\"", "'", "$", "[", "]", "\\"}

\* characters with no branch in the dispatch chain
Unknown == {" "}

Alphabet == Letters \cup {"0", "1", "9"} \cup LengthSymbols \cup TurnSymbols \cup AngleSymbols
            \cup ThicknessSymbols \cup ChannelSymbols \cup OtherSymbols \cup Unknown

\* c.lower() if c.isupper() else c.upper()
SwapCase(ch) == IF ch = "F" THEN "f" ELSE IF ch = "f" THEN "F" ELSE ch

\* the character the dispatch chain sees
Acting(ch) == IF swap_cases /\ ch \in Letters THEN SwapCase(ch) ELSE ch

----------------------------------------------------------------------------
(* The turtle *)

Call(op, a) == [op |-> op, a |-> a]

Ops(calls) == [k \in 1..Len(calls) |-> calls[k].op]

\* unit vector of a heading, for headings that are multiples of a quarter circle
Dir(heading, full_circle) ==
    LET q == ((4 * heading) \div full_circle) % 4
    IN  CASE q = 0 -> <<1, 0>> [] q = 1 -> <<0, 1>> [] q = 2 -> <<-1, 0>> [] q = 3 -> <<0, -1>>

\* t.forward(distance)
Forward(tt, distance) ==
    LET d == Dir(tt.heading, arg.full_circle)
    IN  <<RAdd(tt.pos[1], RMul(distance, RInt(d[1]))),
          RAdd(tt.pos[2], RMul(distance, RInt(d[2])))>>

Mark(kind, from, to, color, width) == <<kind, from, to, color, width>>

\* orient() that never puts the pen down again
orientLeavesPenUp(tt, position, heading) ==
    [t |-> [tt EXCEPT !.pos = IF position # <<>> THEN position[1] ELSE @,
                      !.heading = IF heading # <<>> THEN heading[1] % arg.full_circle ELSE @,
                      !.down = FALSE],
     calls |-> <<Call("speed", <<>>), Call("isdown", <<>>), Call("penup", <<>>),
                 Call("speed", <<0>>)>>
               \o (IF position # <<>> THEN <<Call("setposition", position)>> ELSE <<>>)
               \o (IF heading # <<>> THEN <<Call("setheading", heading)>> ELSE <<>>)
               \o <<Call("speed", <<tt.speed>>)>>]

\* orient(t, position, heading); position / heading are <<>> for None, else <<value>>
orient(tt, position, heading) ==
    [t |-> [tt EXCEPT !.pos = IF position # <<>> THEN position[1] ELSE @,
                      !.heading = IF heading # <<>> THEN heading[1] % arg.full_circle ELSE @],
     calls |-> <<Call("speed", <<>>), Call("isdown", <<>>), Call("penup", <<>>),
                 Call("speed", <<0>>)>>
               \o (IF position # <<>> THEN <<Call("setposition", position)>> ELSE <<>>)
               \o (IF heading # <<>> THEN <<Call("setheading", heading)>> ELSE <<>>)
               \o <<Call("speed", <<tt.speed>>)>>
               \o (IF tt.down THEN <<Call("pendown", <<>>)>> ELSE <<>>)]

----------------------------------------------------------------------------
(* The closures of run() *)

Frame(data, image) == [eps |-> Len(data), image |-> image]

save_frameUnbounded(data, att, image) ==
    [att |-> att + 1,
     data |-> Append(data, Frame(data, image)),
     calls |-> <<Call("save_frame", <<>>)>>]

save_frame(data, att, image) ==
    [att |-> att + 1,
     data |-> IF Len(data) < arg.max_frames THEN Append(data, Frame(data, image)) ELSE data,
     calls |-> <<Call("save_frame", <<>>)>>]

NoFrame(d, data, att) == [draws |-> d, att |-> att, data |-> data, calls |-> <<>>]

\* the counter compared before it is incremented
gif_handlerEarly(image) ==
    IF arg.gif
    THEN IF draws % arg.draws_per_frame = 0
         THEN LET s == save_frame(gif_data, frames_attempted, image)
              IN  [draws |-> draws + 1, att |-> s.att, data |-> s.data, calls |-> s.calls]
         ELSE NoFrame(draws + 1, gif_data, frames_attempted)
    ELSE NoFrame(draws, gif_data, frames_attempted)

gif_handler(image) ==
    IF arg.gif
    THEN IF (draws + 1) % arg.draws_per_frame = 0
         THEN LET s == save_frame(gif_data, frames_attempted, image)
              IN  [draws |-> draws + 1, att |-> s.att, data |-> s.data, calls |-> s.calls]
         ELSE NoFrame(draws + 1, gif_data, frames_attempted)
    ELSE NoFrame(draws, gif_data, frames_attempted)

\* t.pensize(max(0, thickness))
set_pensize(tt, th) ==
    [t |-> [tt EXCEPT !.pensize = Max(0, th)],
     calls |-> <<Call("pensize", <<Max(0, th)>>)>>]

\* modify_fill left set after it was used
set_colorKeepsFlag(tt, color) ==
    IF modify_fill
    THEN [pen |-> pen_color, fill |-> color, mf |-> modify_fill,
          t |-> IF color # NoColor THEN [tt EXCEPT !.fillcolor = color] ELSE tt,
          calls |-> IF color # NoColor THEN <<Call("fillcolor", color)>> ELSE <<>>]
    ELSE [pen |-> color, fill |-> fill_color, mf |-> modify_fill,
          t |-> IF color # NoColor THEN [tt EXCEPT !.pencolor = color] ELSE tt,
          calls |-> IF color # NoColor THEN <<Call("pencolor", color)>> ELSE <<>>]

set_color(tt, color) ==
    IF modify_fill
    THEN [pen |-> pen_color, fill |-> color, mf |-> FALSE,
          t |-> IF color # NoColor THEN [tt EXCEPT !.fillcolor = color] ELSE tt,
          calls |-> IF color # NoColor THEN <<Call("fillcolor", color)>> ELSE <<>>]
    ELSE [pen |-> color, fill |-> fill_color, mf |-> modify_fill,
          t |-> IF color # NoColor THEN [tt EXCEPT !.pencolor = color] ELSE tt,
          calls |-> IF color # NoColor THEN <<Call("pencolor", color)>> ELSE <<>>]

\* the color handed to set_color even when there is none
increment_colorNoGuard(tt, channel, decrement) ==
    LET color == IF modify_fill THEN fill_color ELSE pen_color
    IN  IF color # NoColor
        THEN LET amount == (IF decrement THEN -1 ELSE 1) * arg.color_increments[channel]
             IN  set_color(tt, [color EXCEPT ![channel] = clamp(color[channel] + amount)])
        ELSE set_color(tt, NoColor)

increment_color(tt, channel, decrement) ==
    LET color == IF modify_fill THEN fill_color ELSE pen_color
    IN  IF color # NoColor
        THEN LET amount == (IF decrement THEN -1 ELSE 1) * arg.color_increments[channel]
             IN  set_color(tt, [color EXCEPT ![channel] = clamp(color[channel] + amount)])
        ELSE [pen |-> pen_color, fill |-> fill_color, mf |-> modify_fill,
              t |-> tt, calls |-> <<>>]

\* State(...) as built by '['
Snapshot ==
    [position |-> t.pos, heading |-> t.heading, angle |-> angle, length |-> length,
     thickness |-> thickness, pen_color |-> pen_color, fill_color |-> fill_color,
     swap_signs |-> swap_signs, swap_cases |-> swap_cases, modify_fill |-> modify_fill]

----------------------------------------------------------------------------
(* The module-level state and init() *)

\* the globals as the import of the module leaves them
ImportGlobals == [SILENT |-> FALSE, GHOSTSCRIPT |-> "", INITIALIZED |-> FALSE, WAITED |-> FALSE]

\* the turtle window before any configuration
NewScreen == [window |-> "unset", loops |-> 0]

NoReturn == [kind |-> "none", string |-> <<>>]

Pending == [kind |-> "pending", string |-> <<>>]

\* the arguments of draw() that make the command string
NoDrawArgs ==
    [start |-> <<>>, rules |-> [str |-> TRUE, text |-> <<>>], level |-> 0,
     prefix |-> <<>>, suffix |-> <<>>]

\* n: how many calls of the package were made so far; inited: whether the call
\* called init() itself; string: the local of draw() of that name
NoApiCall ==
    [fn |-> "none", n |-> 0, skip_init |-> FALSE, inited |-> FALSE, printed |-> <<>>,
     args |-> NoDrawArgs, string |-> <<>>, ret |-> NoReturn]

\* message(text): printed unless silenced
message(g, text) == IF ~g.SILENT THEN <<text>> ELSE <<>>

\* init(window..., ghostscript, silent): ghostscript None is "", window stands for
\* all the window arguments
init(g, scr, silent, ghostscript, window) ==
    LET g1 == [g EXCEPT !.SILENT = silent]
    IN  IF g1.WAITED
        THEN [globals |-> g1, screen |-> scr, printed |-> message(g1, "Did not init()")]
        ELSE [globals |-> [g1 EXCEPT !.GHOSTSCRIPT = ghostscript, !.INITIALIZED = TRUE],
              screen |-> [scr EXCEPT !.window = window],
              printed |-> <<>>]

\* init() called whatever skip_init and _INITIALIZED are
InitIfNeededAlways(g, scr, skip_init) ==
    LET r == init(g, scr, FALSE, "", "default")
    IN  [globals |-> r.globals, screen |-> r.screen, printed |-> r.printed, inited |-> TRUE]

\* if not skip_init and not _INITIALIZED: init()
InitIfNeeded(g, scr, skip_init) ==
    IF ~skip_init /\ ~g.INITIALIZED
    THEN LET r == init(g, scr, FALSE, "", "default")
         IN  [globals |-> r.globals, screen |-> r.screen, printed |-> r.printed, inited |-> TRUE]
    ELSE [globals |-> g, screen |-> scr, printed |-> <<>>, inited |-> FALSE]

\* draw() up to the call of run(), wait() not called before: init() if needed and,
\* for a gif, the ghostscript guess
DrawEntry(g, scr, skip_init, gif, n) ==
    LET r == InitIfNeeded(g, scr, skip_init)
        guess == gif /\ r.globals.GHOSTSCRIPT = ""
        g2 == IF guess THEN [r.globals EXCEPT !.GHOSTSCRIPT = "guessed"] ELSE r.globals
    IN  [globals |-> g2,
         screen |-> r.screen,
         called |-> [NoApiCall EXCEPT
                        !.fn = "draw", !.n = n, !.skip_init = skip_init,
                        !.inited = r.inited,
                        !.printed = r.printed
                            \o (IF guess THEN message(g2, "Guessed ghostscript") ELSE <<>>),
                        !.ret = Pending]]

\* draw() called after wait(): a message and None
DrawRefused(g, n, skip_init, a) ==
    [NoApiCall EXCEPT !.fn = "draw", !.n = n, !.skip_init = skip_init,
                      !.printed = message(g, "Did not draw()"), !.args = a]

\* wait(skip_init): init() if needed, then the event loop unless it was entered before
wait(g, scr, skip_init, n) ==
    LET r == InitIfNeeded(g, scr, skip_init)
    IN  [globals |-> [r.globals EXCEPT !.WAITED = TRUE],
         screen |-> IF ~r.globals.WAITED THEN [r.screen EXCEPT !.loops = @ + 1]
                    ELSE r.screen,
         called |-> [NoApiCall EXCEPT !.fn = "wait", !.n = n, !.skip_init = skip_init,
                                      !.inited = r.inited, !.printed = r.printed]]

\* the whole of the arguments rewritten by the grammar
CommandStringRewritesAll(a) ==
    lsystem(a.prefix \o a.start \o a.suffix, make_rules(a.rules), a.level)

\* string = prefix + lsystem(start, make_rules(rules), level) + suffix
CommandString(a) ==
    a.prefix \o lsystem(a.start, make_rules(a.rules), a.level) \o a.suffix

----------------------------------------------------------------------------
(* The arguments of a run *)

Origin == <<RInt(0), RInt(0)>>

BaseArg ==
    [colors |-> make_colors(<<300, -7, 128>>, NoColor, [given |-> FALSE]),
     full_circle |-> 4,
     position |-> Origin,
     heading |-> 0,
     angle |-> 1,
     length |-> RInt(2),
     thickness |-> 1,
     angle_increment |-> 1,
     length_increment |-> RInt(1),
     length_scalar |-> RInt(2),
     thickness_increment |-> 1,
     color_increments |-> <<4, 4, 4>>,
     gif |-> FALSE,
     draws_per_frame |-> 1,
     max_frames |-> 0]

\* a second run: no pen color, a fill color, frames captured, a zero scalar
OtherArg ==
    [BaseArg EXCEPT !.colors = make_colors(NoColor, <<10, 20, 30>>, [given |-> FALSE]),
                    !.length_scalar = RInt(0),
                    !.color_increments = <<-300, 300, 1>>,
                    !.gif = TRUE,
                    !.draws_per_frame = 2,
                    !.max_frames = 1]

RunArgs == {BaseArg, OtherArg}

\* the turtle draw() hands to run(): created pen down, oriented to the initial pose
NewTurtle(a) ==
    [pos |-> a.position, heading |-> a.heading % a.full_circle, down |-> TRUE,
     pensize |-> 1, pencolor |-> <<0, 0, 0>>, fillcolor |-> <<0, 0, 0>>,
     speed |-> 0, filling |-> FALSE]

NoCall == [fn |-> "none"]

NoTicks == [n |-> 0, before |-> FALSE]

\* run() entered: the locals of lines 623-628
RunInit(a, n) ==
    /\ pc = "setup"
    /\ arg = a
    /\ bound = n
    /\ i = 0
    /\ c = ""
    /\ angle = a.angle
    /\ length = a.length
    /\ thickness = a.thickness
    /\ swap_signs = FALSE
    /\ swap_cases = FALSE
    /\ modify_fill = FALSE
    /\ pen_color = a.colors[1]
    /\ fill_color = a.colors[2]
    /\ stack = <<>>
    /\ gif_data = <<>>
    /\ draws = 0
    /\ frames_attempted = 0
    /\ qualifying = 0
    /\ t = NewTurtle(a)
    /\ canvas = {}
    /\ emitted = <<>>
    /\ pure = NoCall
    /\ ticks = NoTicks
    /\ amps = NoTicks
    /\ LET d == DrawEntry(ImportGlobals, NewScreen, FALSE, a.gif, 1)
       IN  globals = d.globals /\ screen = d.screen /\ called = d.called

Init == DRAW_NUMBER = 1 /\ \E a \in RunArgs : RunInit(a, MaxLen)

----------------------------------------------------------------------------
(* The steps of run() *)

interp == <<angle, length, thickness, pen_color, fill_color, swap_signs, swap_cases, modify_fill>>

frames == <<gif_data, draws, frames_attempted, qualifying>>

\* set_pensize(), the initial colors and the initial frame
Setup ==
    /\ pc = "setup"
    /\ LET p == set_pensize(t, thickness)
           t1 == IF pen_color # NoColor THEN [p.t EXCEPT !.pencolor = pen_color] ELSE p.t
           t2 == IF fill_color # NoColor THEN [t1 EXCEPT !.fillcolor = fill_color] ELSE t1
           s == IF arg.gif THEN save_frame(gif_data, frames_attempted, canvas)
                ELSE [att |-> frames_attempted, data |-> gif_data, calls |-> <<>>]
       IN  /\ t' = t2
           /\ frames_attempted' = s.att
           /\ gif_data' = s.data
           /\ emitted' = p.calls
                 \o (IF pen_color # NoColor THEN <<Call("pencolor", pen_color)>> ELSE <<>>)
                 \o (IF fill_color # NoColor THEN <<Call("fillcolor", fill_color)>> ELSE <<>>)
                 \o s.calls
    /\ pc' = "loop"
    /\ UNCHANGED <<arg, bound, i, c, interp, stack, draws, qualifying, canvas, pure,
                   ticks, DRAW_NUMBER, amps, session>>

\* the for loop takes the next character
Take(ch) ==
    /\ pc = "loop"
    /\ i < bound
    /\ i' = i + 1
    /\ c' = ch
    /\ ticks' = IF ch # Backtick THEN NoTicks
                ELSE [n |-> ticks.n + 1,
                      before |-> IF ticks.n = 0 THEN swap_cases ELSE ticks.before]
    /\ amps' = IF ch # "&" THEN NoTicks
               ELSE [n |-> amps.n + 1,
                     before |-> IF amps.n = 0 THEN swap_signs ELSE amps.before]
    /\ UNCHANGED <<arg, bound, pure, DRAW_NUMBER, session>>

\* the pen engaged whatever the pen size is
DrawForwardAnyWidth(ch) ==
    /\ Take(ch)
    /\ Acting(ch) \in Upper
    /\ LET down == pen_color # NoColor
           to == Forward(t, length)
           image == IF down
                    THEN canvas \cup {Mark("line", t.pos, to, t.pencolor, t.pensize)}
                    ELSE canvas
           g == gif_handler(image)
       IN  /\ t' = [t EXCEPT !.down = down, !.pos = to]
           /\ canvas' = image
           /\ draws' = g.draws
           /\ qualifying' = qualifying + 1
           /\ frames_attempted' = g.att
           /\ gif_data' = g.data
           /\ emitted' = (IF pen_color # NoColor THEN <<Call("pensize", <<>>)>> ELSE <<>>)
                 \o <<Call(IF down THEN "pendown" ELSE "penup", <<>>), Call("forward", <<length>>)>>
                 \o g.calls
    /\ pc' = "loop"
    /\ UNCHANGED <<interp, stack>>

\* 'A' <= c <= 'Z'
DrawForward(ch) ==
    /\ Take(ch)
    /\ Acting(ch) \in Upper
    /\ LET down == pen_color # NoColor /\ t.pensize # 0
           to == Forward(t, length)
           image == IF down
                    THEN canvas \cup {Mark("line", t.pos, to, t.pencolor, t.pensize)}
                    ELSE canvas
           g == gif_handler(image)
       IN  /\ t' = [t EXCEPT !.down = down, !.pos = to]
           /\ canvas' = image
           /\ draws' = g.draws
           /\ qualifying' = qualifying + 1
           /\ frames_attempted' = g.att
           /\ gif_data' = g.data
           /\ emitted' = (IF pen_color # NoColor THEN <<Call("pensize", <<>>)>> ELSE <<>>)
                 \o <<Call(IF down THEN "pendown" ELSE "penup", <<>>), Call("forward", <<length>>)>>
                 \o g.calls
    /\ pc' = "loop"
    /\ UNCHANGED <<interp, stack>>

\* a lowercase move handed to gif_handler like a draw
MoveForwardCounts(ch) ==
    /\ Take(ch)
    /\ Acting(ch) \in Lower
    /\ LET g == gif_handler(canvas)
       IN  /\ t' = [t EXCEPT !.down = FALSE, !.pos = Forward(t, length)]
           /\ draws' = g.draws
           /\ frames_attempted' = g.att
           /\ gif_data' = g.data
           /\ emitted' = <<Call("penup", <<>>), Call("forward", <<length>>)>> \o g.calls
    /\ pc' = "loop"
    /\ UNCHANGED <<interp, stack, qualifying, canvas>>

\* 'a' <= c <= 'z'
MoveForward(ch) ==
    /\ Take(ch)
    /\ Acting(ch) \in Lower
    /\ t' = [t EXCEPT !.down = FALSE, !.pos = Forward(t, length)]
    /\ emitted' = <<Call("penup", <<>>), Call("forward", <<length>>)>>
    /\ pc' = "loop"
    /\ UNCHANGED <<interp, stack, frames, canvas>>

\* '_', '^', '%', '*', '/' with a non-zero scalar
LengthOp(ch) ==
    /\ Take(ch)
    /\ ch \in LengthSymbols
    /\ ch = "/" => arg.length_scalar[1] # 0
    /\ length' = CASE ch = "_" -> arg.length
                   [] ch = "^" -> RAdd(length, arg.length_increment)
                   [] ch = "%" -> RSub(length, arg.length_increment)
                   [] ch = "*" -> RMul(length, arg.length_scalar)
                   [] ch = "/" -> RDiv(length, arg.length_scalar)
    /\ emitted' = <<>>
    /\ pc' = "loop"
    /\ UNCHANGED <<angle, thickness, pen_color, fill_color, swap_signs, swap_cases,
                   modify_fill, stack, frames, t, canvas>>

\* the division error caught and the loop left as by the escape symbol
DivFaultCaught(ch) ==
    /\ Take(ch)
    /\ ch = "/"
    /\ arg.length_scalar[1] = 0
    /\ emitted' = <<>>
    /\ pc' = "end"
    /\ UNCHANGED <<interp, stack, frames, t, canvas>>

\* '/' with a zero scalar: ZeroDivisionError leaves run()
DivFault(ch) ==
    /\ Take(ch)
    /\ ch = "/"
    /\ arg.length_scalar[1] = 0
    /\ emitted' = <<>>
    /\ pc' = "fault"
    /\ UNCHANGED <<interp, stack, frames, t, canvas>>

\* '+' always left and '-' always right
TurnOpIgnoresFlag(ch) ==
    /\ Take(ch)
    /\ ch \in TurnSymbols
    /\ LET left == ch = "+"
           by == IF ch = "|" THEN arg.full_circle \div 2 ELSE angle
       IN  /\ t' = [t EXCEPT !.heading = IF left THEN (@ + by) % arg.full_circle
                                         ELSE (@ - by) % arg.full_circle]
           /\ emitted' = <<Call(IF left THEN "left" ELSE "right", <<by>>)>>
    /\ pc' = "loop"
    /\ UNCHANGED <<interp, stack, frames, canvas>>

\* '+', '-', '|'
TurnOp(ch) ==
    /\ Take(ch)
    /\ ch \in TurnSymbols
    /\ LET left == (ch = "+" /\ ~swap_signs) \/ (ch = "-" /\ swap_signs)
           by == IF ch = "|" THEN arg.full_circle \div 2 ELSE angle
       IN  /\ t' = [t EXCEPT !.heading = IF left THEN (@ + by) % arg.full_circle
                                         ELSE (@ - by) % arg.full_circle]
           /\ emitted' = <<Call(IF left THEN "left" ELSE "right", <<by>>)>>
    /\ pc' = "loop"
    /\ UNCHANGED <<interp, stack, frames, canvas>>

\* '&' toggling both swap flags
SwapSignsBoth(ch) ==
    /\ Take(ch)
    /\ ch = "&"
    /\ swap_signs' = ~swap_signs
    /\ swap_cases' = ~swap_cases
    /\ emitted' = <<>>
    /\ pc' = "loop"
    /\ UNCHANGED <<angle, length, thickness, pen_color, fill_color,
                   modify_fill, stack, frames, t, canvas>>

\* '&'
SwapSigns(ch) ==
    /\ Take(ch)
    /\ ch = "&"
    /\ swap_signs' = ~swap_signs
    /\ emitted' = <<>>
    /\ pc' = "loop"
    /\ UNCHANGED <<angle, length, thickness, pen_color, fill_color, swap_cases,
                   modify_fill, stack, frames, t, canvas>>

\* '~', ')', '('
AngleOp(ch) ==
    /\ Take(ch)
    /\ ch \in AngleSymbols
    /\ angle' = CASE ch = "~" -> arg.angle
                  [] ch = ")" -> angle + arg.angle_increment
                  [] ch = "(" -> angle - arg.angle_increment
    /\ emitted' = <<>>
    /\ pc' = "loop"
    /\ UNCHANGED <<length, thickness, pen_color, fill_color, swap_signs, swap_cases,
                   modify_fill, stack, frames, t, canvas>>

\* the thickness variable itself floored at 0
ThicknessOpFloored(ch) ==
    /\ Take(ch)
    /\ ch \in ThicknessSymbols
    /\ LET th == CASE ch = "=" -> arg.thickness
                   [] ch = ">" -> Max(0, thickness + arg.thickness_increment)
                   [] ch = "<" -> Max(0, thickness - arg.thickness_increment)
           p == set_pensize(t, th)
       IN  /\ thickness' = th
           /\ t' = p.t
           /\ emitted' = p.calls
    /\ pc' = "loop"
    /\ UNCHANGED <<angle, length, pen_color, fill_color, swap_signs, swap_cases,
                   modify_fill, stack, frames, canvas>>

\* '=', '>', '<'
ThicknessOp(ch) ==
    /\ Take(ch)
    /\ ch \in ThicknessSymbols
    /\ LET th == CASE ch = "=" -> arg.thickness
                   [] ch = ">" -> thickness + arg.thickness_increment
                   [] ch = "<" -> thickness - arg.thickness_increment
           p == set_pensize(t, th)
       IN  /\ thickness' = th
           /\ t' = p.t
           /\ emitted' = p.calls
    /\ pc' = "loop"
    /\ UNCHANGED <<angle, length, pen_color, fill_color, swap_signs, swap_cases,
                   modify_fill, stack, frames, canvas>>

\* the effect of set_color / increment_color on the run
ApplyColor(r) ==
    /\ pen_color' = r.pen
    /\ fill_color' = r.fill
    /\ modify_fill' = r.mf
    /\ t' = r.t
    /\ emitted' = r.calls
    /\ pc' = "loop"
    /\ UNCHANGED <<angle, length, thickness, swap_signs, swap_cases, stack, frames, canvas>>

\* '0' <= c <= '9'
Digit(ch) ==
    /\ Take(ch)
    /\ ch \in Digits
    /\ ApplyColor(set_color(t, arg.colors[DigitValue(ch) + 1]))

\* '#'
Hash(ch) ==
    /\ Take(ch)
    /\ ch = "#"
    /\ modify_fill' = TRUE
    /\ emitted' = <<>>
    /\ pc' = "loop"
    /\ UNCHANGED <<angle, length, thickness, pen_color, fill_color, swap_signs,
                   swap_cases, stack, frames, t, canvas>>

Channel(ch) == CASE ch \in {".", ","} -> 1 [] ch \in {":", ";"} -> 2 [] ch \in {"!", "?"} -> 3

\* '.', ',', ':', ';', '!', '?'
ChannelOp(ch) ==
    /\ Take(ch)
    /\ ch \in ChannelSymbols
    /\ ApplyColor(increment_color(t, Channel(ch), ch \in {",", ";", "?"}))

\* '{'
BeginFill(ch) ==
    /\ Take(ch)
    /\ ch = "{"
    /\ t' = IF fill_color # NoColor THEN [t EXCEPT !.filling = TRUE] ELSE t
    /\ emitted' = IF fill_color # NoColor THEN <<Call("begin_fill", <<>>)>> ELSE <<>>
    /\ pc' = "loop"
    /\ UNCHANGED <<interp, stack, frames, canvas>>

\* '}'
EndFill(ch) ==
    /\ Take(ch)
    /\ ch = "}"
    /\ LET image == IF fill_color # NoColor /\ t.filling
                    THEN canvas \cup {Mark("fill", t.pos, t.pos, t.fillcolor, 0)}
                    ELSE canvas
           g == gif_handler(image)
       IN  /\ t' = IF fill_color # NoColor THEN [t EXCEPT !.filling = FALSE] ELSE t
           /\ canvas' = image
           /\ draws' = g.draws
           /\ qualifying' = qualifying + 1
           /\ frames_attempted' = g.att
           /\ gif_data' = g.data
           /\ emitted' = (IF fill_color # NoColor THEN <<Call("end_fill", <<>>)>> ELSE <<>>)
                 \o g.calls
    /\ pc' = "loop"
    /\ UNCHANGED <<interp, stack>>

\* '@' doing nothing at all without a fill color
DotSkipsCount(ch) ==
    /\ Take(ch)
    /\ ch = "@"
    /\ LET image == IF fill_color # NoColor
                    THEN canvas \cup {Mark("dot", t.pos, t.pos, fill_color,
                                           Max(t.pensize + 4, 2 * t.pensize))}
                    ELSE canvas
           g == IF fill_color # NoColor THEN gif_handler(image)
                ELSE NoFrame(draws, gif_data, frames_attempted)
       IN  /\ canvas' = image
           /\ draws' = g.draws
           /\ qualifying' = qualifying + (IF fill_color # NoColor THEN 1 ELSE 0)
           /\ frames_attempted' = g.att
           /\ gif_data' = g.data
           /\ emitted' = (IF fill_color # NoColor THEN <<Call("dot", fill_color)>> ELSE <<>>)
                 \o g.calls
    /\ pc' = "loop"
    /\ UNCHANGED <<interp, stack, t>>

\* '@'
Dot(ch) ==
    /\ Take(ch)
    /\ ch = "@"
    /\ LET image == IF fill_color # NoColor
                    THEN canvas \cup {Mark("dot", t.pos, t.pos, fill_color,
                                           Max(t.pensize + 4, 2 * t.pensize))}
                    ELSE canvas
           g == gif_handler(image)
       IN  /\ canvas' = image
           /\ draws' = g.draws
           /\ qualifying' = qualifying + 1
           /\ frames_attempted' = g.att
           /\ gif_data' = g.data
           /\ emitted' = (IF fill_color # NoColor THEN <<Call("dot", fill_color)>> ELSE <<>>)
                 \o g.calls
    /\ pc' = "loop"
    /\ UNCHANGED <<interp, stack, t>>

\* the grave accent switching the flag on instead of toggling it
SwapCasesSet(ch) ==
    /\ Take(ch)
    /\ ch = Backtick
    /\ swap_cases' = TRUE
    /\ emitted' = <<>>
    /\ pc' = "loop"
    /\ UNCHANGED <<angle, length, thickness, pen_color, fill_color, swap_signs,
                   modify_fill, stack, frames, t, canvas>>

\* the grave accent
SwapCases(ch) ==
    /\ Take(ch)
    /\ ch = Backtick
    /\ swap_cases' = ~swap_cases
    /\ emitted' = <<>>
    /\ pc' = "loop"
    /\ UNCHANGED <<angle, length, thickness, pen_color, fill_color, swap_signs,
                   modify_fill, stack, frames, t, canvas>>

\* '"' and "'"
Reorient(ch) ==
    /\ Take(ch)
    /\ ch \in {"\"", "'"}
    /\ LET o == IF ch = "\"" THEN orient(t, <<arg.position>>, <<>>)
                ELSE orient(t, <<>>, <<arg.heading>>)
       IN  /\ t' = o.t
           /\ emitted' = o.calls
    /\ pc' = "loop"
    /\ UNCHANGED <<interp, stack, frames, canvas>>

\* '$' erasing the drawing and keeping the stack
ClearKeepsStack(ch) ==
    /\ Take(ch)
    /\ ch = "$"
    /\ canvas' = {}
    /\ t' = [t EXCEPT !.filling = FALSE]
    /\ emitted' = <<Call("clear", <<>>)>>
    /\ pc' = "loop"
    /\ UNCHANGED <<interp, stack, frames>>

\* '$'
Clear(ch) ==
    /\ Take(ch)
    /\ ch = "$"
    /\ stack' = <<>>
    /\ canvas' = {}
    /\ t' = [t EXCEPT !.filling = FALSE]
    /\ emitted' = <<Call("clear", <<>>)>>
    /\ pc' = "loop"
    /\ UNCHANGED <<interp, frames>>

\* '['
Push(ch) ==
    /\ Take(ch)
    /\ ch = "["
    /\ stack' = Append(stack, Snapshot)
    /\ emitted' = <<Call("xcor", <<>>), Call("ycor", <<>>), Call("heading", <<>>)>>
    /\ pc' = "loop"
    /\ UNCHANGED <<interp, frames, t, canvas>>

\* what ']' assigns from the popped State
Restored(state) ==
    [angle |-> state.angle, length |-> state.length, thickness |-> thickness,
     swap_signs |-> state.swap_signs, swap_cases |-> state.swap_cases,
     modify_fill |-> state.modify_fill, pen_color |-> state.pen_color,
     fill_color |-> state.fill_color]

\* ']' with a non-empty stack
Pop(ch) ==
    /\ Take(ch)
    /\ ch = "]"
    /\ stack # <<>>
    /\ LET state == stack[Len(stack)]
           o == orient(t, <<state.position>>, <<state.heading>>)
           r == Restored(state)
       IN  /\ stack' = SubSeq(stack, 1, Len(stack) - 1)
           /\ t' = o.t
           /\ emitted' = o.calls
           /\ angle' = r.angle
           /\ length' = r.length
           /\ thickness' = r.thickness
           /\ swap_signs' = r.swap_signs
           /\ swap_cases' = r.swap_cases
           /\ modify_fill' = r.modify_fill
           /\ pen_color' = r.pen_color
           /\ fill_color' = r.fill_color
    /\ pc' = "loop"
    /\ UNCHANGED <<frames, canvas>>

\* ']' popping without the emptiness test: list.pop() raises on an empty list
PopEmptyFault(ch) ==
    /\ Take(ch)
    /\ ch = "]"
    /\ stack = <<>>
    /\ emitted' = <<>>
    /\ pc' = "fault"
    /\ UNCHANGED <<interp, stack, frames, t, canvas>>

\* ']' with an empty stack
PopEmpty(ch) ==
    /\ Take(ch)
    /\ ch = "]"
    /\ stack = <<>>
    /\ emitted' = <<>>
    /\ pc' = "loop"
    /\ UNCHANGED <<interp, stack, frames, t, canvas>>

\* the escape symbol skipped like an unknown character instead of breaking
EscapeIgnored(ch) ==
    /\ Take(ch)
    /\ ch = "\\"
    /\ emitted' = <<>>
    /\ pc' = "loop"
    /\ UNCHANGED <<interp, stack, frames, t, canvas>>

\* '\\': break
Escape(ch) ==
    /\ Take(ch)
    /\ ch = "\\"
    /\ emitted' = <<>>
    /\ pc' = "end"
    /\ UNCHANGED <<interp, stack, frames, t, canvas>>

\* a character no branch matches treated as an error
IgnoredFault(ch) ==
    /\ Take(ch)
    /\ ch \in Unknown
    /\ emitted' = <<>>
    /\ pc' = "fault"
    /\ UNCHANGED <<interp, stack, frames, t, canvas>>

\* a character no branch matches
Ignored(ch) ==
    /\ Take(ch)
    /\ ch \in Unknown
    /\ emitted' = <<>>
    /\ pc' = "loop"
    /\ UNCHANGED <<interp, stack, frames, t, canvas>>

\* the string ends here, or break was taken: the final frame, then return gif_data
Finish ==
    /\ pc \in {"loop", "end"}
    /\ LET s == IF arg.gif /\ draws % arg.draws_per_frame # 0
                THEN save_frame(gif_data, frames_attempted, canvas)
                ELSE [att |-> frames_attempted, data |-> gif_data, calls |-> <<>>]
       IN  /\ frames_attempted' = s.att
           /\ gif_data' = s.data
           /\ emitted' = s.calls
    /\ pc' = "done"
    /\ UNCHANGED <<arg, bound, i, c, interp, stack, draws, qualifying, t, canvas, pure,
                   ticks, DRAW_NUMBER, amps, session>>

Step(ch) ==
    \/ DrawForward(ch)
    \/ MoveForward(ch)
    \/ LengthOp(ch)
    \/ DivFault(ch)
    \/ TurnOp(ch)
    \/ SwapSigns(ch)
    \/ AngleOp(ch)
    \/ ThicknessOp(ch)
    \/ Digit(ch)
    \/ Hash(ch)
    \/ ChannelOp(ch)
    \/ BeginFill(ch)
    \/ EndFill(ch)
    \/ Dot(ch)
    \/ SwapCases(ch)
    \/ Reorient(ch)
    \/ Clear(ch)
    \/ Push(ch)
    \/ Pop(ch)
    \/ PopEmpty(ch)
    \/ Escape(ch)
    \/ Ignored(ch)

Next ==
    \/ Setup
    \/ \E ch \in Alphabet : Step(ch)
    \/ Finish

Spec == Init /\ [][Next]_vars

----------------------------------------------------------------------------
(* Runs that capture frames *)

FrameAlphabet == {"F", "f", "}", "@", Backtick, "\\"}

FrameArgs ==
    {[BaseArg EXCEPT !.colors = make_colors(<<255, 255, 255>>, <<128, 128, 128>>, [given |-> FALSE]),
                     !.gif = TRUE, !.draws_per_frame = k, !.max_frames = m] :
        k \in 1..MaxK, m \in 0..MaxM}

InitFrames == DRAW_NUMBER = 1 /\ \E a \in FrameArgs : RunInit(a, MaxFrameLen)

NextFrames ==
    \/ Setup
    \/ \E ch \in FrameAlphabet :
          \/ DrawForward(ch)
          \/ MoveForward(ch)
          \/ EndFill(ch)
          \/ Dot(ch)
          \/ SwapCases(ch)
          \/ Escape(ch)
    \/ Finish

SpecFrames == InitFrames /\ [][NextFrames]_vars

----------------------------------------------------------------------------
(* Runs that change colors *)

ColorAlphabet == {"0", "1", "#", ".", ";", "?", "[", "]"}

ColorArgs ==
    {[BaseArg EXCEPT !.colors = p, !.color_increments = inc] :
        p \in {make_colors(<<300, -7, 128>>, NoColor, [given |-> FALSE]),
               make_colors(NoColor, NoColor,
                           [given |-> TRUE, list |-> <<NoColor, <<254, 1, 400>>>>])},
        inc \in {<<4, 4, 4>>, <<-300, 300, 1>>}}

InitColor == DRAW_NUMBER = 1 /\ \E a \in ColorArgs : RunInit(a, MaxColorLen)

NextColor ==
    \/ Setup
    \/ \E ch \in ColorAlphabet :
          \/ Digit(ch)
          \/ Hash(ch)
          \/ ChannelOp(ch)
          \/ Push(ch)
          \/ Pop(ch)
          \/ PopEmpty(ch)
    \/ Finish

SpecColor == InitColor /\ [][NextColor]_vars

----------------------------------------------------------------------------
(* Runs that change the thickness *)

ThicknessAlphabet == {"=", ">", "<", "F", "[", "]"}

ThicknessArgs ==
    {[BaseArg EXCEPT !.thickness = th, !.thickness_increment = inc] :
        th \in {0, 1}, inc \in {1, 2}}

InitThickness == DRAW_NUMBER = 1 /\ \E a \in ThicknessArgs : RunInit(a, MaxThickLen)

NextThickness ==
    \/ Setup
    \/ \E ch \in ThicknessAlphabet :
          \/ ThicknessOp(ch)
          \/ DrawForward(ch)
          \/ Push(ch)
          \/ Pop(ch)
          \/ PopEmpty(ch)
    \/ Finish

SpecThickness == InitThickness /\ [][NextThickness]_vars

----------------------------------------------------------------------------
(* Several runs, one per call of draw() *)

RunsAlphabet == {"F", "[", Backtick, "#", "&", "/"}

RunsArgs == {[BaseArg EXCEPT !.gif = TRUE, !.max_frames = 1], OtherArg}

InitRuns == DRAW_NUMBER = 1 /\ \E a \in RunsArgs : RunInit(a, MaxRunLen)

\* the next run sharing the stack, the flags and the counters of the one before
EnterShared ==
    /\ pc \in {"done", "fault"}
    /\ DRAW_NUMBER < MaxRuns
    /\ DRAW_NUMBER' = DRAW_NUMBER + 1
    /\ \E a \in RunsArgs :
          /\ arg' = a
          /\ angle' = a.angle
          /\ length' = a.length
          /\ thickness' = a.thickness
          /\ pen_color' = a.colors[1]
          /\ fill_color' = a.colors[2]
          /\ t' = NewTurtle(a)
          /\ LET d == DrawEntry(globals, screen, FALSE, a.gif, called.n + 1)
             IN  globals' = d.globals /\ screen' = d.screen /\ called' = d.called
    /\ amps' = NoTicks
    /\ i' = 0
    /\ c' = ""
    /\ canvas' = {}
    /\ emitted' = <<>>
    /\ ticks' = NoTicks
    /\ pc' = "setup"
    /\ UNCHANGED <<bound, pure, swap_signs, swap_cases, modify_fill, stack, frames>>

\* draw() called again after a run returned or raised: a new turtle, which has
\* drawn nothing yet, and run() entered with the locals of lines 623-628
Enter ==
    /\ pc \in {"done", "fault"}
    /\ DRAW_NUMBER < MaxRuns
    /\ DRAW_NUMBER' = DRAW_NUMBER + 1
    /\ \E a \in RunsArgs :
          /\ arg' = a
          /\ angle' = a.angle
          /\ length' = a.length
          /\ thickness' = a.thickness
          /\ pen_color' = a.colors[1]
          /\ fill_color' = a.colors[2]
          /\ t' = NewTurtle(a)
          /\ LET d == DrawEntry(globals, screen, FALSE, a.gif, called.n + 1)
             IN  globals' = d.globals /\ screen' = d.screen /\ called' = d.called
    /\ amps' = NoTicks
    /\ swap_signs' = FALSE
    /\ swap_cases' = FALSE
    /\ modify_fill' = FALSE
    /\ stack' = <<>>
    /\ gif_data' = <<>>
    /\ draws' = 0
    /\ frames_attempted' = 0
    /\ qualifying' = 0
    /\ i' = 0
    /\ c' = ""
    /\ canvas' = {}
    /\ emitted' = <<>>
    /\ ticks' = NoTicks
    /\ pc' = "setup"
    /\ UNCHANGED <<bound, pure>>

NextRuns ==
    \/ Setup
    \/ \E ch \in RunsAlphabet :
          \/ DrawForward(ch)
          \/ Push(ch)
          \/ SwapCases(ch)
          \/ Hash(ch)
          \/ SwapSigns(ch)
          \/ LengthOp(ch)
          \/ DivFault(ch)
    \/ Finish
    \/ Enter

SpecRuns == InitRuns /\ [][NextRuns]_vars

----------------------------------------------------------------------------
(* Runs that draw, fill, dot and erase while frames are captured *)

PictureAlphabet == {"F", "{", "}", "@", "$"}

\* max_frames is large enough for every attempt of a run to be stored
PictureArgs ==
    {[BaseArg EXCEPT !.colors = make_colors(<<255, 255, 255>>, fc, [given |-> FALSE]),
                     !.gif = TRUE, !.draws_per_frame = k, !.max_frames = MaxPictureLen + 2] :
        fc \in {NoColor, <<128, 128, 128>>}, k \in 1..MaxK}

InitPicture == DRAW_NUMBER = 1 /\ \E a \in PictureArgs : RunInit(a, MaxPictureLen)

NextPicture ==
    \/ Setup
    \/ \E ch \in PictureAlphabet :
          \/ DrawForward(ch)
          \/ BeginFill(ch)
          \/ EndFill(ch)
          \/ Dot(ch)
          \/ Clear(ch)
    \/ Finish

SpecPicture == InitPicture /\ [][NextPicture]_vars

----------------------------------------------------------------------------
(* Runs that turn and teleport *)

PoseAlphabet == {"F", "+", "-", "&", "|", "\"", "'", ")"}

PoseArgs ==
    {BaseArg, [BaseArg EXCEPT !.position = <<RInt(1), RInt(-1)>>, !.heading = 1]}

InitPose == DRAW_NUMBER = 1 /\ \E a \in PoseArgs : RunInit(a, MaxPoseLen)

NextPose ==
    \/ Setup
    \/ \E ch \in PoseAlphabet :
          \/ DrawForward(ch)
          \/ TurnOp(ch)
          \/ SwapSigns(ch)
          \/ AngleOp(ch)
          \/ Reorient(ch)
    \/ Finish

SpecPose == InitPose /\ [][NextPose]_vars

----------------------------------------------------------------------------
(* Sessions: calls of init(), draw() and wait() from a script *)

SessionRules == [str |-> TRUE, text |-> <<"F", " ", "F", "+", "F">>]

SessionDraws ==
    {[start |-> <<"F">>, rules |-> SessionRules, level |-> l, prefix |-> p, suffix |-> x] :
        l \in 0..MaxSessionLevel, p \in {<<>>, <<"F">>}, x \in {<<>>, <<"F">>}}

\* the module imported, nothing called yet
InitSession ==
    /\ pc = "idle"
    /\ arg = BaseArg
    /\ bound = 0
    /\ i = 0
    /\ c = ""
    /\ angle = BaseArg.angle
    /\ length = BaseArg.length
    /\ thickness = BaseArg.thickness
    /\ swap_signs = FALSE
    /\ swap_cases = FALSE
    /\ modify_fill = FALSE
    /\ pen_color = BaseArg.colors[1]
    /\ fill_color = BaseArg.colors[2]
    /\ stack = <<>>
    /\ gif_data = <<>>
    /\ draws = 0
    /\ frames_attempted = 0
    /\ qualifying = 0
    /\ t = NewTurtle(BaseArg)
    /\ canvas = {}
    /\ emitted = <<>>
    /\ pure = NoCall
    /\ ticks = NoTicks
    /\ amps = NoTicks
    /\ DRAW_NUMBER = 0
    /\ globals = ImportGlobals
    /\ screen = NewScreen
    /\ called = NoApiCall

\* the script calls init(...)
CallInit ==
    /\ pc = "idle"
    /\ called.n < MaxCalls
    /\ \E silent \in BOOLEAN, ghostscript \in {"", "gs"} :
          LET r == init(globals, screen, silent, ghostscript, "custom")
          IN  /\ globals' = r.globals
              /\ screen' = r.screen
              /\ called' = [NoApiCall EXCEPT !.fn = "init", !.n = called.n + 1,
                                             !.printed = r.printed]
    /\ UNCHANGED <<pc, arg, bound, i, c, interp, stack, frames, t, canvas, emitted, pure,
                   ticks, DRAW_NUMBER, amps>>

\* the script calls wait(...); the event loop ends when the window is closed
CallWait ==
    /\ pc = "idle"
    /\ called.n < MaxCalls
    /\ \E skip_init \in BOOLEAN :
          LET r == wait(globals, screen, skip_init, called.n + 1)
          IN  globals' = r.globals /\ screen' = r.screen /\ called' = r.called
    /\ UNCHANGED <<pc, arg, bound, i, c, interp, stack, frames, t, canvas, emitted, pure,
                   ticks, DRAW_NUMBER, amps>>

\* the script calls draw(...): refused after wait(), else up to the call of run()
CallDraw ==
    /\ pc = "idle"
    /\ called.n < MaxCalls
    /\ DRAW_NUMBER' = DRAW_NUMBER + 1
    /\ \E skip_init \in BOOLEAN, a \in SessionDraws :
          IF globals.WAITED
          THEN /\ called' = DrawRefused(globals, called.n + 1, skip_init, a)
               /\ UNCHANGED <<pc, arg, bound, i, c, interp, stack, frames, t, canvas,
                              emitted, ticks, amps, globals, screen>>
          ELSE /\ LET d == DrawEntry(globals, screen, skip_init, BaseArg.gif, called.n + 1)
                  IN  /\ globals' = d.globals
                      /\ screen' = d.screen
                      /\ called' = [d.called EXCEPT !.args = a, !.string = CommandString(a)]
               /\ bound' = Len(CommandString(a))
               /\ arg' = BaseArg
               /\ angle' = BaseArg.angle
               /\ length' = BaseArg.length
               /\ thickness' = BaseArg.thickness
               /\ pen_color' = BaseArg.colors[1]
               /\ fill_color' = BaseArg.colors[2]
               /\ t' = NewTurtle(BaseArg)
               /\ amps' = NoTicks
               /\ swap_signs' = FALSE
               /\ swap_cases' = FALSE
               /\ modify_fill' = FALSE
               /\ stack' = <<>>
               /\ gif_data' = <<>>
               /\ draws' = 0
               /\ frames_attempted' = 0
               /\ qualifying' = 0
               /\ i' = 0
               /\ c' = ""
               /\ canvas' = {}
               /\ emitted' = <<>>
               /\ ticks' = NoTicks
               /\ pc' = "setup"
    /\ UNCHANGED pure

\* run() interprets the next character of the string draw() made
SessionStep ==
    /\ i < Len(called.string)
    /\ LET ch == called.string[i + 1]
       IN  DrawForward(ch) \/ TurnOp(ch)

\* the loop of run() is over when the string is
SessionFinish ==
    /\ i = Len(called.string)
    /\ Finish

\* return string, t
DrawReturn ==
    /\ pc = "done"
    /\ pc' = "idle"
    /\ called' = [called EXCEPT !.ret = [kind |-> "value", string |-> called.string]]
    /\ UNCHANGED <<arg, bound, i, c, interp, stack, frames, t, canvas, emitted, pure,
                   ticks, DRAW_NUMBER, amps, globals, screen>>

NextSession ==
    \/ CallInit
    \/ CallWait
    \/ CallDraw
    \/ Setup
    \/ SessionStep
    \/ SessionFinish
    \/ DrawReturn

SpecSession == InitSession /\ [][NextSession]_vars

----------------------------------------------------------------------------
(* Calls of the pure helpers *)

\* all sequences over S of length at most n
SeqsUpTo(S, n) == UNION {[1..m -> S] : m \in 0..n}

Starts == SeqsUpTo({"F", "G", "+"}, MaxStart)

Replacements == {<<>>, <<"G">>, <<"F", "G">>, <<"F", "+", "F">>}

Grammars == UNION {[D -> Replacements] : D \in SUBSET {<<"F">>, <<"G">>}}

RulesInputs ==
    {[str |-> TRUE, text |-> tx] : tx \in SeqsUpTo({"F", "G", " "}, MaxRulesLen)}
    \cup {[str |-> FALSE, dict |-> g] : g \in Grammars}

ColorsInputs ==
    {[given |-> FALSE]}
    \cup {[given |-> TRUE, list |-> l] : l \in SeqsUpTo({NoColor, <<-1, 256, 7>>}, MaxColors)}

InitPure ==
    /\ pc = "pure"
    /\ arg = BaseArg
    /\ bound = 0
    /\ i = 0
    /\ c = ""
    /\ angle = BaseArg.angle
    /\ length = BaseArg.length
    /\ thickness = BaseArg.thickness
    /\ swap_signs = FALSE
    /\ swap_cases = FALSE
    /\ modify_fill = FALSE
    /\ pen_color = NoColor
    /\ fill_color = NoColor
    /\ stack = <<>>
    /\ gif_data = <<>>
    /\ draws = 0
    /\ frames_attempted = 0
    /\ qualifying = 0
    /\ t = NewTurtle(BaseArg)
    /\ canvas = {}
    /\ emitted = <<>>
    /\ pure = NoCall
    /\ ticks = NoTicks
    /\ DRAW_NUMBER = 0
    /\ amps = NoTicks
    /\ globals = ImportGlobals
    /\ screen = NewScreen
    /\ called = NoApiCall

CallLsystem ==
    /\ pc = "pure"
    /\ \E start \in Starts, rules \in Grammars, level \in 0..MaxLevel :
          pure' = [fn |-> "lsystem", args |-> <<start, rules, level>>,
                   ret |-> lsystem(start, rules, level)]
    /\ pc' = "returned"
    /\ UNCHANGED <<arg, bound, i, c, interp, stack, frames, t, canvas, emitted,
                   ticks, DRAW_NUMBER, amps, session>>

CallMakeRules ==
    /\ pc = "pure"
    /\ \E rules \in RulesInputs :
          pure' = [fn |-> "make_rules", args |-> <<rules>>, ret |-> make_rules(rules)]
    /\ pc' = "returned"
    /\ UNCHANGED <<arg, bound, i, c, interp, stack, frames, t, canvas, emitted,
                   ticks, DRAW_NUMBER, amps, session>>

CallMakeColors ==
    /\ pc = "pure"
    /\ \E color \in {NoColor, <<300, -7, 128>>}, fillColor \in {NoColor, <<10, 20, 30>>},
          colors \in ColorsInputs :
          pure' = [fn |-> "make_colors", args |-> <<color, fillColor, colors>>,
                   ret |-> make_colors(color, fillColor, colors)]
    /\ pc' = "returned"
    /\ UNCHANGED <<arg, bound, i, c, interp, stack, frames, t, canvas, emitted,
                   ticks, DRAW_NUMBER, amps, session>>

NextPure == CallLsystem \/ CallMakeRules \/ CallMakeColors

SpecPure == InitPure /\ [][NextPure]_vars

----------------------------------------------------------------------------
(* Properties of the scope stack *)

\* the ten components of the interpreter state that a State snapshot names
InterpreterState ==
    [position |-> t.pos, heading |-> t.heading, angle |-> angle, length |-> length,
     thickness |-> thickness, pen_color |-> pen_color, fill_color |-> fill_color,
     swap_signs |-> swap_signs, swap_cases |-> swap_cases, modify_fill |-> modify_fill]

\* a step of the for loop that takes the character ch
Takes(ch) == i' = i + 1 /\ c' = ch

\* C1: '[' records the whole interpreter state, and the state right after the
\* matching ']' equals the recorded one in all ten components (position, heading,
\* angle, length, thickness, pen color, fill color, swap-signs, swap-cases,
\* modify-fill).
C1_BalancedRegionRestoresState ==
    [][/\ Takes("[") => stack' = Append(stack, InterpreterState)
       /\ (Takes("]") /\ stack # <<>>) => InterpreterState' = stack[Len(stack)]]_vars

\* C5: ']' taken while the stack is empty raises no fault, changes no interpreter
\* variable, leaves the stack, the frame counters, the turtle and the drawing as
\* they were, and makes no turtle or recorder call.
C5_UnmatchedCloseIsNoOp ==
    [][(Takes("]") /\ stack = <<>>) =>
          /\ pc' = "loop"
          /\ emitted' = <<>>
          /\ UNCHANGED <<interp, stack, frames, t, canvas>>]_vars

\* a third character was ']' on an empty stack, so at least as many ']' as '[' came before
C5_Witness ==
    pc = "loop" /\ c = "]" /\ i = 3 /\ emitted = <<>> /\ stack = <<>>

----------------------------------------------------------------------------
(* Properties of the escape symbol *)

\* what the end of run() does, from the loop's exit whichever way it was left
FinalOutcome ==
    LET final == arg.gif /\ draws % arg.draws_per_frame # 0
    IN  /\ frames_attempted' = frames_attempted + (IF final THEN 1 ELSE 0)
        /\ gif_data' = IF final /\ Len(gif_data) < arg.max_frames
                       THEN Append(gif_data, [eps |-> Len(gif_data), image |-> canvas])
                       ELSE gif_data
        /\ Ops(emitted') = IF final THEN <<"save_frame">> ELSE <<>>
        /\ UNCHANGED <<interp, stack, draws, t, canvas>>

\* C3: the escape symbol makes no call and changes nothing, no character after it
\* is taken, and the run then ends exactly as it ends when the string stops there:
\* the same final capture attempt, the same stored frames.
C3_EscapeEndsRun ==
    [][/\ Takes("\\") => (pc' = "end" /\ emitted' = <<>>
                            /\ UNCHANGED <<interp, stack, frames, t, canvas>>)
       /\ pc = "end" => (pc' = "done" /\ i' = i /\ c' = c)
       /\ pc' = "done" => FinalOutcome]_vars

\* the run ended on an escape with characters left over, after a final capture
C3_Witness ==
    /\ pc = "done" /\ c = "\\" /\ i = 2 /\ i < bound
    /\ arg.gif /\ frames_attempted = 2 /\ Len(gif_data) = 1

----------------------------------------------------------------------------
(* Properties of the modify-fill flag *)

ColorSymbols == Digits \cup ChannelSymbols

\* C4: the color-affecting symbol right after '#' leaves modify-fill cleared,
\* whatever the pen and fill colors are, and a color-affecting symbol taken while
\* modify-fill is clear leaves the fill color alone.
C4_HashIsSingleUse ==
    [][(\E ch \in ColorSymbols : Takes(ch)) =>
          /\ c = "#" => modify_fill' = FALSE
          /\ ~modify_fill => fill_color' = fill_color]_vars

----------------------------------------------------------------------------
(* Properties of frame capture *)

\* the least integer not below a / b
CeilDiv(a, b) == (a + b - 1) \div b

\* C2: with frame capture on, draws-per-frame k >= 1 and max-frames m >= 0, a run
\* that processed q qualifying draws has made ceil(q / k) + 1 capture attempts and
\* returns min(ceil(q / k) + 1, m) stored frames.
C2_FrameCount ==
    (pc = "done" /\ arg.gif) =>
        /\ frames_attempted = CeilDiv(qualifying, arg.draws_per_frame) + 1
        /\ Len(gif_data) = Min(CeilDiv(qualifying, arg.draws_per_frame) + 1, arg.max_frames)

\* three qualifying draws at two draws per frame: three attempts, the last discarded
C2_Witness ==
    /\ pc = "done" /\ arg.gif /\ qualifying = 3
    /\ arg.draws_per_frame = 2 /\ arg.max_frames = 2
    /\ frames_attempted = 3 /\ Len(gif_data) = 2

\* the capture attempts among a list of calls
Attempts(calls) == Cardinality({k \in 1..Len(calls) : calls[k].op = "save_frame"})

\* C6: the stored frames never outnumber max-frames nor the attempts, every
\* capture attempt adds one to the attempted counter whether or not its frame is
\* stored, and once max-frames frames are stored the list stays as it is.
C6_StoredFramesBounded ==
    /\ [](Len(gif_data) <= arg.max_frames /\ Len(gif_data) <= frames_attempted)
    /\ [][/\ frames_attempted' = frames_attempted + Attempts(emitted')
          /\ Len(gif_data) = arg.max_frames => gif_data' = gif_data]_vars

\* an attempt was just counted although the list was already full
C6_Witness ==
    /\ arg.max_frames = 1 /\ Len(gif_data) = 1 /\ frames_attempted = 3
    /\ Attempts(emitted) = 1 /\ c = "F"

----------------------------------------------------------------------------
(* Properties of the expander and the grammar *)

\* out is src with every character replaced by its entry, or kept when it has
\* none: the k-th piece of out is decided by the k-th character of src alone
IsOnePass(src, rules, out) ==
    LET rep(k) == IF <<src[k]>> \in DOMAIN rules THEN rules[<<src[k]>>] ELSE <<src[k]>>
        off[k \in 0..Len(src)] == IF k = 0 THEN 0 ELSE off[k - 1] + Len(rep(k))
    IN  /\ Len(out) = off[Len(src)]
        /\ \A k \in 1..Len(src) : SubSeq(out, off[k - 1] + 1, off[k]) = rep(k)

\* C7: level 0 returns start unchanged, and level n + 1 is one simultaneous
\* substitution pass over the result of level n.
C7_ExpandIsIteratedPass ==
    pure.fn = "lsystem" =>
        LET start == pure.args[1]
            rules == pure.args[2]
            level == pure.args[3]
        IN  /\ level = 0 => pure.ret = start
            /\ level > 0 => IsOnePass(lsystem(start, rules, level - 1), rules, pure.ret)

\* two levels of F -> F+F over the start FF
C7_Witness ==
    /\ pure.fn = "lsystem"
    /\ pure.args[1] = <<"F", "F">>
    /\ pure.args[3] = 2
    /\ Len(pure.ret) = 14

\* the tokens of a text: its maximal runs of characters that are not whitespace
TokenStarts(text) ==
    {k \in 1..Len(text) : text[k] \notin Whitespace /\ (k = 1 \/ text[k - 1] \in Whitespace)}

TokenEnd(text, k) ==
    CHOOSE e \in k..Len(text) :
       /\ \A j \in k..e : text[j] \notin Whitespace
       /\ e = Len(text) \/ text[e + 1] \in Whitespace

Token(text, n) ==
    LET k == CHOOSE k \in TokenStarts(text) :
                Cardinality({j \in TokenStarts(text) : j < k}) = n - 1
    IN  SubSeq(text, k, TokenEnd(text, k))

Pairs(text) == Cardinality(TokenStarts(text)) \div 2

\* C8 as stated: the grammar holds the entry of every complete pair, token 2p-1
\* the symbol and token 2p its replacement, and nothing else; a mapping given
\* directly is returned unchanged.
C8_EveryPairIsAnEntry ==
    pure.fn = "make_rules" =>
        IF pure.args[1].str
        THEN LET text == pure.args[1].text
             IN  /\ DOMAIN pure.ret = {Token(text, 2 * p - 1) : p \in 1..Pairs(text)}
                 /\ \A p \in 1..Pairs(text) :
                       pure.ret[Token(text, 2 * p - 1)] = Token(text, 2 * p)
        ELSE pure.ret = pure.args[1].dict

\* C8 amended: the grammar's symbols are those of the complete pairs, the trailing
\* token of an odd count is dropped, and each symbol's replacement is the one of
\* the last complete pair that names it; a mapping given directly is returned
\* unchanged.
C8_LastPairOfASymbolIsItsEntry ==
    pure.fn = "make_rules" =>
        IF pure.args[1].str
        THEN LET text == pure.args[1].text
             IN  /\ DOMAIN pure.ret = {Token(text, 2 * p - 1) : p \in 1..Pairs(text)}
                 /\ \A p \in 1..Pairs(text) :
                       (\A r \in (p + 1)..Pairs(text) :
                           Token(text, 2 * r - 1) # Token(text, 2 * p - 1))
                       => pure.ret[Token(text, 2 * p - 1)] = Token(text, 2 * p)
        ELSE pure.ret = pure.args[1].dict

\* three tokens: the pair F -> FG is kept and the trailing G is dropped
C8_Witness ==
    /\ pure.fn = "make_rules"
    /\ pure.args[1].str
    /\ pure.args[1].text = <<"F", " ", "F", "G", " ", "G">>
    /\ DOMAIN pure.ret = {<<"F">>}
    /\ pure.ret[<<"F">>] = <<"F", "G">>

----------------------------------------------------------------------------
(* Properties of the palette and of colors *)

\* no-color passes through; every channel is brought into 0..255
Conformed(color) ==
    IF color = NoColor THEN NoColor
    ELSE [k \in 1..3 |-> IF color[k] < 0 THEN 0 ELSE IF color[k] > 255 THEN 255 ELSE color[k]]

\* C9: the palette has exactly 10 slots; without a colors list they are the
\* conformed color, the conformed fill color and default slots 2..9; with a list
\* of N entries slot k < min(N, 10) is the conformed k-th entry, the other slots
\* are the default ones, entries past the tenth are discarded and color and fill
\* color override nothing.
C9_PaletteHasTenSlots ==
    pure.fn = "make_colors" =>
        LET color == pure.args[1]
            fillColor == pure.args[2]
            colors == pure.args[3]
        IN  /\ Len(pure.ret) = 10
            /\ ~colors.given =>
                  /\ pure.ret[1] = Conformed(color)
                  /\ pure.ret[2] = Conformed(fillColor)
                  /\ \A k \in 3..10 : pure.ret[k] = DEFAULT_COLORS[k]
            /\ colors.given =>
                  \A k \in 1..10 :
                     pure.ret[k] = IF k <= Len(colors.list) THEN Conformed(colors.list[k])
                                   ELSE DEFAULT_COLORS[k]

\* eleven entries given together with a color and a fill color
C9_Witness ==
    /\ pure.fn = "make_colors"
    /\ pure.args[1] # NoColor /\ pure.args[2] # NoColor
    /\ pure.args[3].given
    /\ Len(pure.args[3].list) = 11
    /\ pure.args[3].list[1] = NoColor
    /\ pure.args[3].list[10] = <<-1, 256, 7>>
    /\ pure.ret[10] = <<0, 255, 7>>

InRange(color) == color = NoColor \/ (Len(color) = 3 /\ \A k \in 1..3 : color[k] \in 0..255)

\* C10: in every state of a run the pen color and the fill color are each
\* no-color or a triplet of channels in 0..255.
C10_ColorsStayInRange ==
    pc \in {"setup", "loop", "end", "done", "fault"} => InRange(pen_color) /\ InRange(fill_color)

\* a decrement of 300 has just been clamped at 0
C10_Witness ==
    /\ c = "." /\ arg.color_increments[1] = -300
    /\ pen_color # NoColor /\ pen_color[1] = 0
    /\ Ops(emitted) = <<"pencolor">>

----------------------------------------------------------------------------
(* Properties of letters and of case swapping *)

\* C11: after two grave accents in a row swap-cases has the value it had before
\* them, and the letter taken next draws or moves, and counts or does not count
\* as a qualifying draw, as that earlier value decides.
C11_TickPairRestoresCase ==
    /\ [](ticks.n = 2 => swap_cases = ticks.before)
    /\ [][\A ch \in Letters : (ticks.n = 2 /\ Takes(ch)) =>
             LET drawing == (ch \in Upper) # ticks.before
             IN  /\ qualifying' = qualifying + (IF drawing THEN 1 ELSE 0)
                 /\ t'.down = (drawing /\ pen_color # NoColor /\ t.pensize > 0)
                 /\ t'.pos = Forward(t, length)]_vars

\* the flag was on, an F moved without drawing, and a pair of accents left it on
C11_Witness ==
    /\ ticks.n = 2 /\ ticks.before /\ swap_cases
    /\ i = 4 /\ qualifying = 0 /\ t.pos # arg.position

\* the calls of a list that engage, disengage or move the pen
PenCalls(calls) ==
    LET keep == {k \in 1..Len(calls) : calls[k].op \in {"pendown", "penup", "forward"}}
        nth(n) == CHOOSE k \in keep : Cardinality({j \in keep : j < k}) = n - 1
    IN  [n \in 1..Cardinality(keep) |-> calls[nth(n)]]

\* C12: a letter that acts as uppercase once the case swap is applied engages the
\* pen exactly when a pen color is set and the applied pen size is above 0,
\* disengages it otherwise, moves forward by the current length and adds one to
\* the qualifying draws; a letter that acts as lowercase disengages the pen, moves
\* forward by the current length and leaves the qualifying draws as they are.
C12_LettersDrawOrMove ==
    [][\A ch \in Letters : Takes(ch) =>
          LET upper == (ch \in Upper) # swap_cases
              engaged == upper /\ pen_color # NoColor /\ t.pensize > 0
          IN  /\ PenCalls(emitted') = <<Call(IF engaged THEN "pendown" ELSE "penup", <<>>),
                                        Call("forward", <<length>>)>>
              /\ t'.down = engaged
              /\ t'.pos = Forward(t, length)
              /\ qualifying' = qualifying + (IF upper THEN 1 ELSE 0)]_vars

\* an F taken with a pen color set and the pen size at 0: counted, pen disengaged
C12_Witness ==
    /\ c = "F" /\ i = 2 /\ ~swap_cases /\ qualifying = 1
    /\ pen_color # NoColor /\ t.pensize = 0 /\ ~t.down
    /\ t.pos # arg.position

----------------------------------------------------------------------------
(* Properties of characters without a branch *)

\* C13: a character that is no letter, no digit and none of the command symbols
\* raises no fault, changes no interpreter variable, leaves the stack, the frame
\* counters, the turtle and the drawing as they were and makes no turtle or
\* recorder call.
C13_UnknownIsIgnored ==
    [][(\E ch \in Unknown : Takes(ch)) =>
          /\ pc' = "loop"
          /\ emitted' = <<>>
          /\ UNCHANGED <<interp, stack, frames, t, canvas>>]_vars

\* a blank taken while case swapping is on and a scope is open
C13_Witness ==
    /\ pc = "loop" /\ c = " " /\ i = 3 /\ emitted = <<>>
    /\ swap_cases /\ Len(stack) = 1

----------------------------------------------------------------------------
(* Properties of the channel symbols *)

\* the channel a symbol names and the sign it applies to the increment
NamedChannel(ch) ==
    CASE ch = "." -> <<1, 1>> [] ch = "," -> <<1, -1>>
      [] ch = ":" -> <<2, 1>> [] ch = ";" -> <<2, -1>>
      [] ch = "!" -> <<3, 1>> [] ch = "?" -> <<3, -1>>

\* color with its channel k moved by amount and kept within 0..255
Stepped(color, k, amount) ==
    [j \in 1..3 |->
        IF j # k THEN color[j]
        ELSE IF color[j] + amount < 0 THEN 0
        ELSE IF color[j] + amount > 255 THEN 255
        ELSE color[j] + amount]

\* C14: a channel symbol taken while the color it targets (the fill color when
\* modify-fill is set, the pen color otherwise) is no-color changes nothing and
\* makes no call; taken while the targeted color is set, it moves the named
\* channel of that color by the configured increment, kept within 0..255, hands
\* the new color to the turtle and leaves the other color, the other channels
\* and the rest of the state alone (modify-fill is cleared by the use).
C14_IncrementTargetsActiveColor ==
    [][\A ch \in ChannelSymbols : Takes(ch) =>
          LET target == IF modify_fill THEN fill_color ELSE pen_color
              k == NamedChannel(ch)[1]
              amount == NamedChannel(ch)[2] * arg.color_increments[k]
          IN  /\ pc' = "loop"
              /\ UNCHANGED <<angle, length, thickness, swap_signs, swap_cases,
                             stack, frames, canvas>>
              /\ target = NoColor =>
                    /\ UNCHANGED <<pen_color, fill_color, modify_fill, t>>
                    /\ emitted' = <<>>
              /\ (target # NoColor /\ modify_fill) =>
                    /\ fill_color' = Stepped(fill_color, k, amount)
                    /\ pen_color' = pen_color
                    /\ modify_fill' = FALSE
                    /\ t' = [t EXCEPT !.fillcolor = fill_color']
                    /\ emitted' = <<Call("fillcolor", fill_color')>>
              /\ (target # NoColor /\ ~modify_fill) =>
                    /\ pen_color' = Stepped(pen_color, k, amount)
                    /\ fill_color' = fill_color
                    /\ modify_fill' = FALSE
                    /\ t' = [t EXCEPT !.pencolor = pen_color']
                    /\ emitted' = <<Call("pencolor", pen_color')>>]_vars

\* a channel symbol right after '#' found no fill color and did nothing
C14_Witness ==
    /\ c \in ChannelSymbols /\ i = 2 /\ modify_fill
    /\ fill_color = NoColor /\ pen_color # NoColor /\ emitted = <<>>

----------------------------------------------------------------------------
(* Properties of the clear symbol *)

\* C15: '$' empties the stack and erases the drawing, and leaves the position,
\* the heading, angle, length, thickness, both colors, the three flags, the
\* qualifying draws and the stored frames as they were; a ']' taken right after
\* it finds no scope to close and does nothing.
C15_ClearEmptiesStack ==
    [][/\ Takes("$") =>
            /\ pc' = "loop"
            /\ stack' = <<>>
            /\ canvas' = {}
            /\ Ops(emitted') = <<"clear">>
            /\ t'.pos = t.pos /\ t'.heading = t.heading
            /\ UNCHANGED <<interp, frames>>
       /\ (Takes("]") /\ c = "$") =>
            /\ pc' = "loop"
            /\ emitted' = <<>>
            /\ UNCHANGED <<interp, stack, frames, t, canvas>>]_vars

\* '$' taken as third character after a line was drawn: nothing is left of it
C15_Witness ==
    /\ pc = "loop" /\ c = "$" /\ i = 3 /\ stack = <<>> /\ canvas = {}
    /\ qualifying = 1 /\ t.down /\ t.pos # arg.position

----------------------------------------------------------------------------
(* Properties of the thickness *)

\* C16: '>' and '<' add and subtract the thickness increment with no floor and
\* '=' sets the thickness to the one the run started with; from the setup on, the
\* pen size of the turtle is the thickness when that is positive and 0 otherwise,
\* so the pen size comes back as the thickness climbs back from below 0.
C16_ThicknessFlooredOnlyWhenApplied ==
    /\ [](pc \in {"loop", "end", "done", "fault"} =>
             t.pensize = IF thickness < 0 THEN 0 ELSE thickness)
    /\ [][/\ Takes(">") => thickness' = thickness + arg.thickness_increment
          /\ Takes("<") => thickness' = thickness - arg.thickness_increment
          /\ Takes("=") => thickness' = arg.thickness]_vars

\* '<' took the thickness from 1 to -1 (pen size 0) and '>' brought both back to 1
C16_Witness ==
    /\ c = ">" /\ i = 2 /\ arg.thickness = 1 /\ arg.thickness_increment = 2
    /\ thickness = 1 /\ t.pensize = 1

----------------------------------------------------------------------------
(* Properties of the swap-cases flag over a run *)

\* C17 as stated: within a run swap-cases changes only in a step that takes a
\* grave accent; no other symbol, ']' included, changes it.
C17_OnlyTickChangesCase ==
    [][swap_cases' # swap_cases => Takes(Backtick)]_vars

\* C17 amended: within a run swap-cases changes only in a step that takes a grave
\* accent, which negates it, or in a step that takes ']' with a scope open,
\* which sets it to the value the matching '[' recorded.
C17_CaseChangesByTickOrRestore ==
    [][/\ Takes(Backtick) => swap_cases' = ~swap_cases
       /\ swap_cases' # swap_cases =>
             \/ Takes(Backtick)
             \/ /\ Takes("]")
                /\ stack # <<>>
                /\ swap_cases' = stack[Len(stack)].swap_cases]_vars

\* an accent switched the flag on inside a scope whose '[' recorded it off
C17_Witness ==
    /\ pc = "loop" /\ c = Backtick /\ i = 2 /\ i < bound
    /\ swap_cases /\ Len(stack) = 1 /\ ~stack[1].swap_cases

----------------------------------------------------------------------------
(* Properties of a run's start *)

\* C18: whenever run() is entered, for the first time or after earlier runs, the
\* stack is empty, swap-signs, swap-cases and modify-fill are off, the pen color
\* is palette slot 0 and the fill color palette slot 1 of this run, the
\* qualifying draws and the attempted frames are 0 and no frame is stored.
C18_RunStartsFresh ==
    pc = "setup" =>
        /\ stack = <<>>
        /\ ~swap_signs /\ ~swap_cases /\ ~modify_fill
        /\ pen_color = arg.colors[1]
        /\ fill_color = arg.colors[2]
        /\ qualifying = 0 /\ draws = 0 /\ frames_attempted = 0
        /\ gif_data = <<>>

\* a second run entered, with the palette that has no pen color
C18_Witness ==
    /\ pc = "setup" /\ DRAW_NUMBER = 2
    /\ pen_color = NoColor /\ fill_color = <<10, 20, 30>>
    /\ stack = <<>> /\ gif_data = <<>>

----------------------------------------------------------------------------
(* Properties of the division symbol *)

\* C19: '/' taken while the length scalar is 0 ends the run in a fault: nothing
\* is changed or called by that step, no character is taken after it and no final
\* frame is captured, as nothing at all follows within the run; '/' taken while
\* the scalar is not 0 raises no fault and the loop goes on.
C19_ZeroScalarDivisionFaults ==
    [][/\ (Takes("/") /\ arg.length_scalar[1] = 0) =>
            /\ pc' = "fault"
            /\ emitted' = <<>>
            /\ UNCHANGED <<interp, stack, frames, t, canvas>>
       /\ (Takes("/") /\ arg.length_scalar[1] # 0) =>
            /\ pc' = "loop"
            /\ length' = RDiv(length, arg.length_scalar)
       /\ pc = "fault" => FALSE]_vars

\* the fault struck with a character left to take and a final frame due
C19_Witness ==
    /\ pc = "fault" /\ c = "/" /\ i = 2 /\ i < bound
    /\ arg.gif /\ draws % arg.draws_per_frame # 0
    /\ frames_attempted = 1

----------------------------------------------------------------------------
(* Properties of the moments of capture *)

\* C20: with frame capture on, the setup makes the first capture attempt, before
\* any character is taken and with no move call before it; a step of the walk
\* makes a capture attempt, as its last call, exactly when it is a qualifying
\* draw that brings the count of qualifying draws to a multiple of
\* draws-per-frame, and no attempt otherwise; the end of the run makes at most
\* one more attempt.
C20_CaptureMoments ==
    [][arg.gif =>
          /\ pc = "setup" =>
                /\ i' = 0
                /\ frames_attempted = 0 /\ frames_attempted' = 1
                /\ Attempts(emitted') = 1
                /\ \A k \in 1..Len(emitted') : emitted'[k].op # "forward"
          /\ i' = i + 1 =>
                LET due == /\ qualifying' = qualifying + 1
                           /\ qualifying' % arg.draws_per_frame = 0
                IN  /\ Attempts(emitted') = IF due THEN 1 ELSE 0
                    /\ due => emitted'[Len(emitted')].op = "save_frame"
                    /\ frames_attempted' = frames_attempted + (IF due THEN 1 ELSE 0)
                    /\ qualifying' # qualifying => c' \in {"F", "f", "}", "@"}
          /\ pc' = "done" =>
                /\ Attempts(emitted') <= 1
                /\ frames_attempted' = frames_attempted + Attempts(emitted')]_vars

\* the second qualifying draw at two draws per frame was followed by a capture,
\* the second attempt of the run
C20_Witness ==
    /\ arg.gif /\ arg.draws_per_frame = 2 /\ pc = "loop"
    /\ qualifying = 2 /\ frames_attempted = 2
    /\ c = "@" /\ Ops(emitted) = <<"dot", "save_frame">>

----------------------------------------------------------------------------
(* Properties of the final frame *)

\* C21: with frame capture on, nothing changes the picture between the last
\* capture attempt of a run and its end; so, when every attempt was stored, the
\* last stored frame shows the drawing as the run leaves it.
C21_FinalPictureRecorded ==
    (pc = "done" /\ arg.gif /\ frames_attempted = Len(gif_data)) =>
        gif_data[Len(gif_data)].image = canvas

----------------------------------------------------------------------------
(* Properties of the colors applied to the turtle *)

\* C22: from the setup of a run on, a pen color that is set is the pen color of
\* the turtle and a fill color that is set is the fill color of the turtle, so
\* that what is drawn next, after a ']' as well, is drawn in the interpreter's
\* colors.
C22_TurtleHasInterpreterColors ==
    pc \in {"loop", "end", "done", "fault"} =>
        /\ pen_color # NoColor => t.pencolor = pen_color
        /\ fill_color # NoColor => t.fillcolor = fill_color

\* the palette slot a digit character names
SlotOf(ch) ==
    LET digits == <<"0", "1", "2", "3", "4", "5", "6", "7", "8", "9">>
    IN  arg.colors[CHOOSE k \in 1..10 : digits[k] = ch]

\* C23: a digit d sets one color to palette slot d: the fill color, with the pen
\* color unchanged and modify-fill cleared, when modify-fill is set, and the pen
\* color, with the fill color unchanged, otherwise; a slot that is no-color makes
\* the targeted color no-color and sends no color call to the turtle, any other
\* slot is sent to it; nothing else changes.
C23_DigitSetsActiveColor ==
    [][\A ch \in Digits : Takes(ch) =>
          /\ pc' = "loop"
          /\ UNCHANGED <<angle, length, thickness, swap_signs, swap_cases,
                         stack, frames, canvas>>
          /\ modify_fill =>
                /\ fill_color' = SlotOf(ch)
                /\ pen_color' = pen_color
                /\ modify_fill' = FALSE
                /\ emitted' = IF SlotOf(ch) = NoColor THEN <<>>
                              ELSE <<Call("fillcolor", SlotOf(ch))>>
                /\ t' = IF SlotOf(ch) = NoColor THEN t
                        ELSE [t EXCEPT !.fillcolor = SlotOf(ch)]
          /\ ~modify_fill =>
                /\ pen_color' = SlotOf(ch)
                /\ fill_color' = fill_color
                /\ modify_fill' = FALSE
                /\ emitted' = IF SlotOf(ch) = NoColor THEN <<>>
                              ELSE <<Call("pencolor", SlotOf(ch))>>
                /\ t' = IF SlotOf(ch) = NoColor THEN t
                        ELSE [t EXCEPT !.pencolor = SlotOf(ch)]]_vars

\* '#0' with slot 0 no-color: the fill color was taken away and no call was made
C23_Witness ==
    /\ c = "0" /\ i = 2 /\ arg.colors[1] = NoColor /\ arg.colors[2] # NoColor
    /\ fill_color = NoColor /\ pen_color = NoColor /\ ~modify_fill /\ emitted = <<>>

----------------------------------------------------------------------------
(* Properties of the fill and dot symbols without a fill color *)

\* C24: while the fill color is no-color, '{', '}' and '@' make no turtle call
\* and leave the turtle and the drawing as they are; '}' and '@' still add one to
\* the qualifying draws and to the draws counter and capture a frame when the
\* count reaches a multiple of draws-per-frame; '{' changes no counter, with or
\* without a fill color.
C24_NoFillColorStillCounts ==
    [][/\ \A ch \in {"{", "}", "@"} : (Takes(ch) /\ fill_color = NoColor) =>
             /\ pc' = "loop"
             /\ \A k \in 1..Len(emitted') : emitted'[k].op = "save_frame"
             /\ UNCHANGED <<interp, stack, t, canvas>>
             /\ ch # "{" =>
                   /\ qualifying' = qualifying + 1
                   /\ arg.gif => draws' = draws + 1
                   /\ Attempts(emitted') =
                         IF arg.gif /\ qualifying' % arg.draws_per_frame = 0 THEN 1 ELSE 0
                   /\ frames_attempted' = frames_attempted + Attempts(emitted')
       /\ Takes("{") => (emitted' \in {<<>>, <<Call("begin_fill", <<>>)>>} /\ UNCHANGED frames)]_vars

\* the second '@' without a fill color drew nothing and triggered a capture
C24_Witness ==
    /\ c = "@" /\ i = 2 /\ fill_color = NoColor /\ arg.draws_per_frame = 2
    /\ qualifying = 2 /\ Ops(emitted) = <<"save_frame">> /\ canvas = {}

----------------------------------------------------------------------------
(* Properties of teleporting and turning *)

\* the place of the first call named op in a list of calls, 0 when there is none
PlaceOf(calls, op) ==
    IF \E k \in 1..Len(calls) : calls[k].op = op
    THEN CHOOSE k \in 1..Len(calls) :
            calls[k].op = op /\ \A j \in 1..(k - 1) : calls[j].op # op
    ELSE 0

\* C25: the double quote puts the turtle at the initial position of the run, the
\* pen lifted before the move and put down again only after it, the heading
\* unchanged; the single quote sets the heading to the initial heading of the
\* run, the position unchanged; both leave the pen engagement, the speed, the
\* drawing, the interpreter variables, the stack and the frame counters as
\* they were.
C25_QuotesTeleport ==
    [][\A ch \in {"\"", "'"} : Takes(ch) =>
          /\ pc' = "loop"
          /\ UNCHANGED <<interp, stack, frames, canvas>>
          /\ t'.down = t.down /\ t'.speed = t.speed
          /\ t'.pensize = t.pensize /\ t'.pencolor = t.pencolor
          /\ t'.pos = IF ch = "\"" THEN arg.position ELSE t.pos
          /\ t'.heading = IF ch = "'" THEN arg.heading % arg.full_circle ELSE t.heading
          /\ \A k \in 1..Len(emitted') : emitted'[k].op # "forward"
          /\ ch = "\"" =>
                /\ 0 < PlaceOf(emitted', "penup")
                /\ PlaceOf(emitted', "penup") < PlaceOf(emitted', "setposition")
                /\ PlaceOf(emitted', "pendown") \in {0, Len(emitted')}]_vars

\* a line was drawn after a turn, then the double quote brought the turtle back:
\* the pen is still engaged, the heading still turned, the line is the only mark
C25_Witness ==
    /\ c = "\"" /\ i = 3 /\ t.pos = arg.position /\ t.down
    /\ t.heading # arg.heading /\ Cardinality(canvas) = 1

\* C26: with swap-signs off '+' turns left and '-' right by the current angle,
\* with swap-signs on '+' turns right and '-' left; '&' negates the flag and
\* moves nothing, and after two '&' in a row the flag has the value it had before
\* them; '|' turns right by half the full circle whatever the flag is.
C26_SwapSignsMirrorsTurns ==
    /\ [](amps.n = 2 => swap_signs = amps.before)
    /\ [][/\ Takes("+") =>
               /\ emitted' = <<Call(IF swap_signs THEN "right" ELSE "left", <<angle>>)>>
               /\ t'.heading = (t.heading + (IF swap_signs THEN 0 - angle ELSE angle))
                                   % arg.full_circle
          /\ Takes("-") =>
               /\ emitted' = <<Call(IF swap_signs THEN "left" ELSE "right", <<angle>>)>>
               /\ t'.heading = (t.heading + (IF swap_signs THEN angle ELSE 0 - angle))
                                   % arg.full_circle
          /\ Takes("|") =>
               /\ emitted' = <<Call("right", <<arg.full_circle \div 2>>)>>
               /\ t'.heading = (t.heading - arg.full_circle \div 2) % arg.full_circle
          /\ Takes("&") => (swap_signs' = ~swap_signs /\ t' = t /\ emitted' = <<>>)
          /\ (\E ch \in {"+", "-", "|"} : Takes(ch)) =>
               (t'.pos = t.pos /\ UNCHANGED <<interp, stack, frames, canvas>>)]_vars

\* swap-signs was on, a turn went the mirrored way, and two '&' left it on
C26_Witness ==
    /\ amps.n = 2 /\ amps.before /\ swap_signs /\ i = 4
    /\ t.heading = (arg.heading + 3) % arg.full_circle /\ angle = arg.angle

----------------------------------------------------------------------------
(* Properties of sessions *)

\* a step that is a call of the package
Calls(fn) == called'.n = called.n + 1 /\ called'.fn = fn

\* C27: once wait() was called, a draw() returns None, makes no string, starts no
\* run and leaves the turtle, the drawing and the window alone, and no step
\* enters the event loop again; before that, a draw() or wait() calls init()
\* itself exactly when skip_init is false and init() has not run, and the window
\* is configured by that call only.
C27_WaitEndsTheSession ==
    [][/\ (globals.WAITED /\ Calls("draw")) =>
             /\ called'.ret = NoReturn /\ called'.string = <<>> /\ ~called'.inited
             /\ pc' = "idle"
             /\ UNCHANGED <<arg, bound, i, c, interp, stack, frames, t, canvas, emitted,
                            globals, screen>>
       /\ globals.WAITED => (screen'.loops = screen.loops /\ pc' = "idle")
       /\ (~globals.WAITED /\ (Calls("draw") \/ Calls("wait"))) =>
             /\ called'.inited <=> (~called'.skip_init /\ ~globals.INITIALIZED)
             /\ called'.inited => (globals'.INITIALIZED /\ screen'.window = "default")
             /\ ~called'.inited =>
                   (globals'.INITIALIZED = globals.INITIALIZED /\ screen'.window = screen.window)
       /\ (~globals.WAITED /\ Calls("wait")) =>
             (globals'.WAITED /\ screen'.loops = screen.loops + 1)]_vars

\* a picture was drawn, wait() was called, and a second draw() returned None
C27_Witness ==
    /\ globals.WAITED /\ screen.loops = 1 /\ called.fn = "draw" /\ called.ret = NoReturn
    /\ DRAW_NUMBER = 2 /\ canvas # {} /\ pc = "idle"

\* C28: an init() call made after wait() leaves the silent flag, the ghostscript
\* path, the initialized flag and the window configuration as they were.
C28_InitAfterWaitIsNoOp ==
    [][(globals.WAITED /\ Calls("init")) => (globals' = globals /\ screen' = screen)]_vars

\* C29: draw() returns the string prefix + lsystem(start, make_rules(rules), level)
\* + suffix, the run took exactly the characters of that string in order, and
\* the prefix and the suffix are in it as they were given.
C29_DrawReturnsCommandString ==
    [][LET a == called.args
           expanded == lsystem(a.start, make_rules(a.rules), a.level)
           string == a.prefix \o expanded \o a.suffix
       IN  /\ (pc = "done" /\ pc' = "idle") =>
                 /\ called'.ret = [kind |-> "value", string |-> string]
                 /\ i = Len(string)
                 /\ SubSeq(called'.ret.string, 1, Len(a.prefix)) = a.prefix
                 /\ SubSeq(called'.ret.string, Len(string) - Len(a.suffix) + 1, Len(string))
                        = a.suffix
           /\ \A ch \in Alphabet : (pc = "loop" /\ Takes(ch)) => ch = string[i']]_vars

\* a prefix and a suffix of the grammar symbol F around F expanded once
C29_Witness ==
    /\ pc = "idle" /\ called.ret.kind = "value"
    /\ called.args.prefix = <<"F">> /\ called.args.suffix = <<"F">> /\ called.args.level = 1
    /\ called.ret.string = <<"F", "F", "+", "F", "F">> /\ i = 5

====
